---- MODULE Spec2Model ----
(***************************************************************************)
(* Model of the ingestion core of Insight-Bridge: the rate limiter and the *)
(* retry loop of AIService (src/src/services/ai.service.ts) and the batch  *)
(* pipeline of IngestionService (src/src/services/ingestion.service.ts).   *)
(*                                                                         *)
(* Time is Date.now() in milliseconds.  The program runs on one JavaScript *)
(* event loop: a task runs without interruption from one await on a timer  *)
(* or on I/O to the next, so an action is the code between two such        *)
(* awaits, and `running` names the task that holds the loop.               *)
(***************************************************************************)
EXTENDS Integers, Sequences, FiniteSets, TLC

VARIABLES
  clock,     \* Date.now()
  budget,    \* AIService's rate-limit fields (one AIService per process)
  running,   \* the task holding the event loop, or None
  task,      \* per task: position and locals of the async call chain
  store,     \* the news_articles table: the records created, in order
  left,      \* what remains of the bounds on the environment's choices
  grantLog   \* history: the lastRequestTime recorded by each granted acquire

vars == <<clock, budget, running, task, store, left, grantLog>>

None == "none"
Procs == {"t1", "t2"}

\* ------------------------------------------------------------ constants
MAX_REQUESTS_PER_MINUTE == 10
MIN_REQUEST_INTERVAL == 6000
MINUTE_WINDOW == 60000
DAY_WINDOW == 86400000
DAILY_LIMIT == 1000
MAX_RETRIES == 3
INITIAL_DELAY == 3000
INTER_CALL_DELAY == 2000
EMBEDDING_DIMENSIONS == 768
MAX_ARTICLES == 3
SUMMARY_MAX_LENGTH == 3000
EMBEDDING_MAX_LENGTH == 2000
ELLIPSIS_LENGTH == 3

\* ------------------------------------------------------------ bounds
\* Date.now() at construction of the AIService.
T0 == 100000
\* acquire() calls one harness caller issues.
MaxCalls == 12
\* how many timers may fire late, and by how much.
MaxLate == 1
LateBy == 700
\* how many times a harness caller may pause between calls, and for how long.
MaxIdles == 2
IdleDelays == {2500, 31000}
\* the day counter an earlier run left behind is DAILY_LIMIT - DayHeadroom,
\* with WarmDayRemaining milliseconds of the day window still to run.
DayHeadroom == 2
WarmDayRemaining == 40000
WarmSinceLast == 1000
\* or it starts late in a minute window: MAX_REQUESTS_PER_MINUTE -
\* MinuteHeadroom requests made, WarmMinuteRemaining milliseconds to run.
MinuteHeadroom == 2
WarmMinuteRemaining == 15000
\* how many calls to the collaborators (News, Store, the AI provider) may fail
\* or answer badly in one run, and how long a call takes.
MaxFaults == 3
NewsLatency == 300
StoreLatency == 40
UpstreamLatency == 800
\* the same in the specifications that add a second batch or a second caller
MaxFaultsTwo == 1
\* how many times the statistics are asked for while a batch runs
MaxStats == 2
\* the longest contentForAI, in characters
MaxTextLen == 3005
\* how many articles more than it was asked for the News collaborator may
\* return
MaxOver == 1

\* ------------------------------------------------------------ RateBudget
\* lines 46-55: both windows are reset when `now` is strictly past their end.
ResetWindows(b, now) ==
  LET m == IF now > b.requestResetTime
           THEN [b EXCEPT !.requestCount = 0, !.requestResetTime = now + MINUTE_WINDOW]
           ELSE b
  IN IF now > m.dailyResetTime
     THEN [m EXCEPT !.dailyRequestCount = 0, !.dailyResetTime = now + DAY_WINDOW]
     ELSE m

DailyLimitReachedLate(b) == b.dailyRequestCount > DAILY_LIMIT
\* line 58
DailyLimitReached(b) == b.dailyRequestCount >= DAILY_LIMIT

\* line 64
MinuteLimitReached(b) == b.requestCount >= MAX_REQUESTS_PER_MINUTE

\* line 65
MinuteWaitTime(b, now) == b.requestResetTime - now

AfterMinuteWaitKeepsCount(b, t) ==
  [b EXCEPT !.requestResetTime = t + MINUTE_WINDOW]
\* lines 68-69, run when the minute sleep is over (Date.now() is read again)
AfterMinuteWait(b, t) ==
  [b EXCEPT !.requestCount = 0, !.requestResetTime = t + MINUTE_WINDOW]

IntervalWaitTimeNone(b, now) == 0
IntervalWaitTimeElapsed(b, now) ==
  IF now - b.lastRequestTime < MIN_REQUEST_INTERVAL
  THEN now - b.lastRequestTime
  ELSE 0
\* lines 73-78: the time still to wait, 0 when the interval has elapsed;
\* `now` is the value sampled on entry (line 43).
IntervalWaitTime(b, now) ==
  IF now - b.lastRequestTime < MIN_REQUEST_INTERVAL
  THEN MIN_REQUEST_INTERVAL - (now - b.lastRequestTime)
  ELSE 0

RecordRequestNoTime(b, t) ==
  [b EXCEPT !.requestCount = @ + 1, !.dailyRequestCount = @ + 1]
\* lines 80-82
RecordRequest(b, t) ==
  [b EXCEPT !.requestCount = @ + 1,
            !.dailyRequestCount = @ + 1,
            !.lastRequestTime = t]

\* the error thrown at line 60
NoErr == [status |-> 0, message |-> <<>>, retry |-> 0]
DailyQuotaError ==
  [status |-> 0,
   message |-> <<"Daily", "API", "quota", "exhausted.", "Please", "try",
                 "again", "in", "24", "hours.">>,
   retry |-> 0]

\* ------------------------------------------------------------ event loop
SuspendPcs ==
  {"h_idle", "wfr_sleep_minute", "wfr_sleep_interval",
   "b_call", "io_fetch", "io_exists", "io_fn", "io_create", "rb_backoff", "g_sleep",
   "s_idle", "io_count"}
FinalPcs == {"off", "h_done", "b_done", "b_failed", "s_done", "x_done"}

Waiting(p) == task[p].pc \in SuspendPcs
Ready(p) == Waiting(p) /\ task[p].wake <= clock

\* p may take a step: it holds the loop, or the loop is free and p's await
\* has resolved.
CanRun(p) == running = p \/ (running = None /\ Ready(p))

\* sleep(ms) (lines 88-90): setTimeout fires after ms, or later.
SleepChoices(l, ms) ==
  {[wake |-> clock + ms, late |-> 0]}
    \cup (IF l.late > 0 THEN {[wake |-> clock + ms + LateBy, late |-> 1]} ELSE {})

\* Time passes only when no task can run; it passes to the next wake-up.
Advance ==
  /\ running = None
  /\ \A p \in Procs : ~Ready(p)
  /\ \E p \in Procs : Waiting(p)
  /\ LET due == {task[p].wake : p \in {q \in Procs : Waiting(q)}}
     IN clock' = CHOOSE t \in due : \A u \in due : t <= u
  /\ UNCHANGED <<budget, running, task, store, left, grantLog>>

\* ------------------------------------------------------------ waitForRateLimit
\* In the definitions below t is task p's record as its caller leaves it.

\* await this.sleep(ms) at position pcv (lines 67, 77, 133, 144, 243), with
\* the rate-limit fields left as b and the remaining bounds as l.
Sleep(p, t, b, l, pcv, ms) ==
  \E s \in SleepChoices(l, ms) :
    /\ budget' = b
    /\ task' = [task EXCEPT ![p] = [t EXCEPT !.pc = pcv, !.wake = s.wake]]
    /\ left' = [l EXCEPT !.late = @ - s.late]
    /\ running' = None
    /\ UNCHANGED <<clock, store, grantLog>>

\* lines 80-83: reserve the slot and return to the caller.
WfrGrant(p, t, b) ==
  /\ budget' = RecordRequest(b, clock)
  /\ task' = [task EXCEPT ![p] = [t EXCEPT !.pc = "wfr_ret", !.runAcq = @ + 1]]
  /\ grantLog' = Append(grantLog, clock)
  /\ running' = p
  /\ UNCHANGED <<clock, store, left>>

\* lines 72-83, from the min-interval check on.
WfrIntervalCheck(p, t, b) ==
  IF IntervalWaitTime(b, t.now) > 0
  THEN Sleep(p, t, b, left, "wfr_sleep_interval", IntervalWaitTime(b, t.now))
  ELSE WfrGrant(p, t, b)

\* lines 43-83 up to the first await: the body of waitForRateLimit as task p
\* runs it when it calls the method.
WfrEnter(p, t0) ==
  LET t == [t0 EXCEPT !.now = clock, !.minuteWait = FALSE]
      b == ResetWindows(budget, t.now)
  IN IF DailyLimitReached(b)
     THEN /\ budget' = b
          /\ task' = [task EXCEPT ![p] = [t EXCEPT !.pc = "wfr_throw",
                                                   !.err = DailyQuotaError]]
          /\ running' = p
          /\ UNCHANGED <<clock, store, left, grantLog>>
     ELSE IF MinuteLimitReached(b)
          THEN Sleep(p, [t EXCEPT !.minuteWait = TRUE], b, left,
                     "wfr_sleep_minute", MinuteWaitTime(b, t.now))
          ELSE WfrIntervalCheck(p, t, b)

\* lines 68-83: the minute sleep is over.
WfrAfterMinuteSleep(p) ==
  /\ CanRun(p)
  /\ task[p].pc = "wfr_sleep_minute"
  /\ WfrIntervalCheck(p, task[p], AfterMinuteWait(budget, clock))

\* lines 80-83: the min-interval sleep is over.
WfrAfterIntervalSleep(p) ==
  /\ CanRun(p)
  /\ task[p].pc = "wfr_sleep_interval"
  /\ WfrGrant(p, task[p], budget)

\* ------------------------------------------------------------ acquire harness
\* A caller that invokes waitForRateLimit MaxCalls times, one call after the
\* other, pausing between two calls at most MaxIdles times.
HarnessCall(p) ==
  /\ CanRun(p)
  /\ task[p].pc = "h_idle"
  /\ WfrEnter(p, [task[p] EXCEPT !.firstCallAt =
                     IF task[p].callsLeft = MaxCalls THEN clock ELSE @])

HarnessNext(p, failed) ==
  LET n == task[p].callsLeft - 1
      t == [task[p] EXCEPT !.callsLeft = n, !.err = NoErr, !.minuteWait = FALSE,
                           !.failedCalls = @ + (IF failed THEN 1 ELSE 0)]
  IN IF n = 0
     THEN /\ task' = [task EXCEPT ![p] = [t EXCEPT !.pc = "h_done"]]
          /\ running' = None
          /\ UNCHANGED <<clock, budget, store, left, grantLog>>
     ELSE \/ /\ task' = [task EXCEPT ![p] = [t EXCEPT !.pc = "h_idle", !.wake = clock]]
             /\ running' = None
             /\ UNCHANGED <<clock, budget, store, left, grantLog>>
          \/ /\ left.idles > 0
             /\ \E d \in IdleDelays :
                  task' = [task EXCEPT ![p] = [t EXCEPT !.pc = "h_idle", !.wake = clock + d]]
             /\ left' = [left EXCEPT !.idles = @ - 1]
             /\ running' = None
             /\ UNCHANGED <<clock, budget, store, grantLog>>

HarnessReturn(p) ==
  /\ running = p
  /\ task[p].top = "acquire"
  /\ task[p].pc = "wfr_ret"
  /\ HarnessNext(p, FALSE)

HarnessCatch(p) ==
  /\ running = p
  /\ task[p].top = "acquire"
  /\ task[p].pc = "wfr_throw"
  /\ HarnessNext(p, TRUE)

\* ------------------------------------------------------------ errors
\* An Error is its status (0: none) and its message, a sequence of words; the
\* words the code searches for are kept apart.  retry is the RetryInfo
\* retryDelay of a 429 in milliseconds (0: none).
Err(st, msg) == [status |-> st, message |-> msg, retry |-> 0]

\* String.prototype.includes, on words.
Includes(msg, pat) ==
  \E k \in 0..(Len(msg) - Len(pat)) : SubSeq(msg, k + 1, k + Len(pat)) = pat

\* what the AI provider can answer instead of a result
UpstreamErrors ==
  {Err(404, <<"models/x", "is", "not", "found">>),
   Err(429, <<"Too", "Many", "Requests">>),
   [Err(429, <<"Too", "Many", "Requests">>) EXCEPT !.retry = 20000],
   [Err(429, <<"Too", "Many", "Requests">>) EXCEPT !.retry = 1000],
   Err(500, <<"Internal", "error">>),
   Err(403, <<"Quota", "exceeded", "for", "quota", "metric">>)}

StoreError == Err(0, <<"connection", "terminated">>)
\* what existsByUrl and create rethrow (articles.repository.ts lines 57-59,
\* 68-70) is the driver's error; its text is the database server's.
DiskQuotaError ==
  Err(0, <<"could", "not", "extend", "file", ":", "Disk", "quota", "exceeded">>)
StoreErrors == {StoreError, DiskQuotaError}
\* the server's answer to an INSERT that breaks the UNIQUE constraint on url
DuplicateKeyError ==
  Err(0, <<"duplicate", "key", "value", "violates", "unique", "constraint">>)

\* line 113
ModelNotAvailable(e) == Err(0, <<"AI", "model", "not", "available", ":">> \o e.message)
\* line 136
RateLimitExceeded ==
  Err(0, <<"Rate", "limit", "exceeded", "after", ToString(MAX_RETRIES),
           "attempts.", "Please", "reduce", "batch", "size", "or", "wait.">>)
\* lines 187, 225
ApiQuotaExceeded ==
  Err(0, <<"API", "quota", "exceeded", ".", "Please", "reduce", "batch",
           "size", "or", "wait.">>)
\* line 216
InvalidDimensions(n) ==
  Err(0, <<"Invalid", "embedding", "dimensions", ":", ToString(n)>>)

Max(x, y) == IF x >= y THEN x ELSE y

\* ------------------------------------------------------------ retryWithBackoff
BackoffDelayFlat(attempt) == INITIAL_DELAY
\* lines 118, 142
BackoffDelay(attempt) == INITIAL_DELAY * (2 ^ attempt)

CatchDecisionRetry404(e, attempt) ==
  IF attempt < MAX_RETRIES - 1
  THEN [throw |-> FALSE, err |-> e, delay |-> BackoffDelay(attempt)]
  ELSE [throw |-> TRUE, err |-> e, delay |-> 0]
CatchDecisionUnbounded(e, attempt) ==
  IF e.status = 404
  THEN [throw |-> TRUE, err |-> ModelNotAvailable(e), delay |-> 0]
  ELSE [throw |-> FALSE, err |-> e, delay |-> BackoffDelay(attempt)]
CatchDecisionNoHint(e, attempt) ==
  IF e.status = 404
  THEN [throw |-> TRUE, err |-> ModelNotAvailable(e), delay |-> 0]
  ELSE IF attempt < MAX_RETRIES - 1
       THEN [throw |-> FALSE, err |-> e, delay |-> BackoffDelay(attempt)]
       ELSE [throw |-> TRUE,
             err |-> IF e.status = 429 THEN RateLimitExceeded ELSE e,
             delay |-> 0]
\* lines 107-148: what the catch block does with error e thrown in the
\* zero-based attempt: throw an error, or sleep and go round the loop.
CatchDecision(e, attempt) ==
  IF e.status = 404
  THEN [throw |-> TRUE, err |-> ModelNotAvailable(e), delay |-> 0]
  ELSE IF e.status = 429
  THEN IF attempt < MAX_RETRIES - 1
       THEN [throw |-> FALSE, err |-> e,
             delay |-> IF e.retry > 0 THEN Max(e.retry, BackoffDelay(attempt))
                       ELSE BackoffDelay(attempt)]
       ELSE [throw |-> TRUE, err |-> RateLimitExceeded, delay |-> 0]
  ELSE IF attempt < MAX_RETRIES - 1
       THEN [throw |-> FALSE, err |-> e, delay |-> BackoffDelay(attempt)]
       ELSE [throw |-> TRUE, err |-> e, delay |-> 0]

\* lines 183-191 and 221-229: the catch block of generateSummary and of
\* generateEmbedding.
GenCatch(op, e) ==
  IF e.status = 429 \/ Includes(e.message, <<"quota">>)
  THEN ApiQuotaExceeded
  ELSE Err(0, (IF op = "summary" THEN <<"Summary">> ELSE <<"Embedding">>)
                \o <<"generation", "failed", ":">> \o e.message)

\* ------------------------------------------------------------ ingest loop
\* line 271 (second definition); the first definition has no such test.
IsQuotaError(variant, msg) ==
  variant = "v2" /\ Includes(msg, <<"quota", "exceeded">>)

\* line 273
QuotaEntry(n) == <<"Quota", "exceeded", "after", ToString(n), "articles">>

\* lines 82-87 (first definition) and 266-282, 354-365 (second definition):
\* the catch block of the candidate loop, for the error e of candidate t.i.
\* trail is history: the candidates the loop has left, with their outcome.
BatchCatch(t, e) ==
  LET url == t.articles[t.i] IN
  IF IsQuotaError(t.variant, e.message)
  THEN [t EXCEPT !.failed = @ + 1,
                 !.errors = Append(@, QuotaEntry(t.success)),
                 !.trail = Append(@, [i |-> t.i, out |-> "failed"]),
                 !.stopped = TRUE]
  ELSE [t EXCEPT !.failed = @ + 1,
                 !.errors = Append(@, IF t.variant = "v2"
                                      THEN <<url, ":">> \o e.message
                                      ELSE e.message),
                 !.trail = Append(@, [i |-> t.i, out |-> "failed"]),
                 !.i = @ + 1]

CountSkippedNot(t) == [t EXCEPT !.i = @ + 1]
\* lines 55-59, 239-243, 333-336: the candidate is already stored.
CountSkipped(t) ==
  [t EXCEPT !.skipped = @ + 1, !.i = @ + 1,
            !.trail = Append(@, [i |-> t.i, out |-> "skipped"])]

\* lines 79, 263, 351
CountSuccessStay(t) ==
  [t EXCEPT !.success = @ + 1,
            !.trail = Append(@, [i |-> t.i, out |-> "persisted"])]
CountSuccess(t) ==
  [t EXCEPT !.success = @ + 1, !.i = @ + 1,
            !.trail = Append(@, [i |-> t.i, out |-> "persisted"])]

\* the loop condition and the return (lines 47, 92, 230, 297, 326, 368), or
\* the next candidate's existsByUrl call (lines 54, 238, 332).
LoopNext(p, t) ==
  /\ task' = [task EXCEPT ![p] =
       IF t.stopped \/ t.i > Len(t.articles)
       THEN [t EXCEPT !.pc = "b_done"]
       ELSE [t EXCEPT !.pc = "io_exists", !.wake = clock + StoreLatency]]
  /\ running' = None

\* an error leaves generateSummary or generateEmbedding: through their catch
\* block and that of generateSummaryAndEmbedding (lines 248-251) into the
\* loop's.
Fail(p, t, e) == LoopNext(p, BatchCatch(t, GenCatch(t.op, e)))

\* retryWithBackoff throws e (lines 113, 136, 146, 151).
RetryThrow(p, t, e) ==
  Fail(p, [t EXCEPT !.quotaAt =
             IF e \in {RateLimitExceeded, DailyQuotaError} THEN t.i ELSE @,
                    !.cause =
             IF e \in {RateLimitExceeded, DailyQuotaError} THEN "quota"
             ELSE "upstream"], e)

\* lines 107-148 for error e, with the remaining bounds as l.
\* History kept per run: caught is the errors its catch block received, one
\* per failed attempt; sleeps the delays it slept; runErr what it threw.
RetryCatch(p, t0, e, l) ==
  LET d == CatchDecision(e, t0.attempt)
      t == [t0 EXCEPT !.caught = Append(@, e)]
  IN
  IF d.throw
  THEN /\ RetryThrow(p, [t EXCEPT !.runErr = d.err], d.err)
       /\ left' = l
       /\ UNCHANGED <<clock, budget, store, grantLog>>
  ELSE Sleep(p, [t EXCEPT !.err = e, !.sleeps = Append(@, d.delay)],
             budget, l, "rb_backoff", d.delay)

\* retryWithBackoff is called for operation op (lines 165, 205): the first
\* attempt's waitForRateLimit (lines 103-105).
StartRun(p, t, op) ==
  WfrEnter(p, [t EXCEPT !.op = op, !.attempt = 0, !.err = NoErr,
                        !.runAcq = 0, !.runCalls = 0, !.quotaFails = 0,
                        !.caught = <<>>, !.sleeps = <<>>, !.runErr = NoErr,
                        !.runStartAt = clock])

RetryCallFnTwice(p) ==
  /\ running = p
  /\ task[p].top = "batch"
  /\ task[p].pc = "wfr_ret"
  /\ task' = [task EXCEPT ![p].pc = "io_fn", ![p].wake = clock + UpstreamLatency,
                          ![p].runCalls = @ + 1,
                          ![p].callAt = clock,
                          ![p].totalCalls = @ + 2]
  /\ running' = None
  /\ UNCHANGED <<clock, budget, store, left, grantLog>>
\* line 106: waitForRateLimit has returned, fn() is called.  callAt and
\* totalCalls are history: when the last call was made, how many the batch
\* has made.
RetryCallFn(p) ==
  /\ running = p
  /\ task[p].top = "batch"
  /\ task[p].pc = "wfr_ret"
  /\ task' = [task EXCEPT ![p].pc = "io_fn", ![p].wake = clock + UpstreamLatency,
                          ![p].runCalls = @ + 1,
                          ![p].callAt = clock,
                          ![p].totalCalls = @ + 1]
  /\ running' = None
  /\ UNCHANGED <<clock, budget, store, left, grantLog>>

\* lines 105-107: waitForRateLimit has thrown inside the try block.
RetryAcquireFailed(p) ==
  /\ running = p
  /\ task[p].top = "batch"
  /\ task[p].pc = "wfr_throw"
  /\ RetryCatch(p, [task[p] EXCEPT !.quotaFails = @ + 1], task[p].err, left)

BackoffDoneNoAcquire(p) ==
  /\ CanRun(p)
  /\ task[p].pc = "rb_backoff"
  /\ task' = [task EXCEPT ![p].attempt = @ + 1, ![p].pc = "io_fn",
                          ![p].wake = clock + UpstreamLatency,
                          ![p].runCalls = @ + 1]
  /\ running' = None
  /\ UNCHANGED <<clock, budget, store, left, grantLog>>
\* lines 133-134, 144 and the loop head (line 103): the backoff sleep is over.
BackoffDone(p) ==
  /\ CanRun(p)
  /\ task[p].pc = "rb_backoff"
  /\ LET t == [task[p] EXCEPT !.attempt = @ + 1] IN
     IF t.attempt < MAX_RETRIES
     THEN WfrEnter(p, t)
     ELSE /\ RetryThrow(p, t, t.err)
          /\ UNCHANGED <<clock, budget, store, left, grantLog>>

InterCallDelayHalved == INTER_CALL_DELAY \div 2
\* line 243
InterCallDelay == INTER_CALL_DELAY

\* the lengths of the vector embedContent may return
EmbeddingLengths == {EMBEDDING_DIMENSIONS, 700, 769}

ValidEmbeddingAtMost(n) == n <= EMBEDDING_DIMENSIONS
ValidEmbeddingAtLeast(n) == n >= EMBEDDING_DIMENSIONS
\* line 215
ValidEmbedding(n) == n = EMBEDDING_DIMENSIONS

\* the upstream call of fn() answers (lines 173-174, 207-208).
FnDone(p) ==
  /\ CanRun(p)
  /\ task[p].pc = "io_fn"
  /\ \/ /\ task[p].op = "summary"
        \* lines 174, 182, 240-243
        /\ Sleep(p, [task[p] EXCEPT !.summary = "text",
                                    !.sumFor = task[p].articles[task[p].i],
                                    !.sumAt = clock],
                 budget, left, "g_sleep", InterCallDelay)
     \/ /\ task[p].op = "embedding"
        /\ \E n \in EmbeddingLengths :
             LET t == [task[p] EXCEPT !.embLen = n,
                                      !.embFor = task[p].articles[task[p].i],
                                      !.cause = IF ValidEmbedding(n) THEN @
                                                ELSE "validation"]
             IN IF ValidEmbedding(n)
                \* lines 208, 215-220, 245-247 and the create call (lines 68,
                \* 252, 341)
                THEN /\ task' = [task EXCEPT ![p] =
                                   [t EXCEPT !.pc = "io_create",
                                             !.wake = clock + StoreLatency]]
                     /\ running' = None
                     /\ UNCHANGED <<clock, budget, store, left, grantLog>>
                \* lines 215-217: a vector of another length
                ELSE /\ left.faults > 0
                     /\ Fail(p, t, InvalidDimensions(n))
                     /\ left' = [left EXCEPT !.faults = @ - 1]
                     /\ UNCHANGED <<clock, budget, store, grantLog>>
     \/ /\ left.faults > 0
        /\ \E e \in UpstreamErrors :
             RetryCatch(p, task[p], e, [left EXCEPT !.faults = @ - 1])

\* line 243 is over: generateEmbedding is called (line 245).
InterCallSleepDone(p) ==
  /\ CanRun(p)
  /\ task[p].pc = "g_sleep"
  /\ StartRun(p, task[p], "embedding")

\* ------------------------------------------------------------ ingestNews, searchAndIngest
ExistsNever(url) == FALSE
ExistsFirstOnly(url) == Len(store) > 0 /\ store[1].url = url
\* articles.repository.ts lines 65-67: SELECT EXISTS(... WHERE url = $1)
Exists(url) == \E k \in 1..Len(store) : store[k].url = url

\* lines 31-34, 105-108: the first definition clamps max; the second does not.
ClampMax(variant, max) ==
  IF variant = "v1" /\ max > MAX_ARTICLES THEN MAX_ARTICLES ELSE max

\* lines 29-44, 103-118, 207-222, 306-320: the call, up to the fetch.
IngestStart(p) ==
  /\ CanRun(p)
  /\ task[p].pc = "b_call"
  /\ task' = [task EXCEPT ![p].asked = ClampMax(task[p].variant, task[p].max),
                          ![p].pc = "io_fetch",
                          ![p].wake = clock + NewsLatency]
  /\ running' = None
  /\ UNCHANGED <<clock, budget, store, left, grantLog>>

\* the lists of candidate URLs the News collaborator may return
ArticleLists ==
  {<<>>, <<"u1">>, <<"u1", "u1", "u2">>, <<"u1", "u2", "u3">>}

\* a list the News collaborator returns when it does not keep to max=
OverLists == {<<"u1", "u2", "u3", "u4">>}

\* ai.service.ts lines 257-277
CeilDiv(a, b) == IF a <= 0 THEN 0 ELSE (a + b - 1) \div b
GetRateLimitStatus(b, now) ==
  [requestsUsedThisMinute |-> b.requestCount,
   requestsRemainingThisMinute |-> Max(0, MAX_REQUESTS_PER_MINUTE - b.requestCount),
   minuteResetIn |-> Max(0, CeilDiv(b.requestResetTime - now, 1000)),
   dailyRequestsUsed |-> b.dailyRequestCount,
   dailyRequestsRemaining |-> Max(0, 1000 - b.dailyRequestCount),
   dailyResetIn |-> Max(0, CeilDiv(b.dailyResetTime - now, 3600000))]

FetchThrowsEmpty(t) == [t EXCEPT !.pc = "b_done", !.i = 1]
\* news.service.ts lines 44-47, 66-69 and the outer catch (lines 94-97,
\* 161-164, 299-302, 370-373): the batch call rejects.
FetchThrows(t) ==
  [t EXCEPT !.pc = "b_failed",
            !.err = Err(0, IF t.entry = "category"
                           THEN <<"News", "fetch", "failed">>
                           ELSE <<"News", "search", "failed">>)]

\* fetchNews / searchNews answers (lines 44, 118, 222, 320), or throws (lines
\* 94-97, 161-164, 299-302, 370-373).
FetchDone(p) ==
  /\ CanRun(p)
  /\ task[p].pc = "io_fetch"
  /\ \/ /\ \E as \in ArticleLists \cup
                     (IF task[p].overBy > 0 THEN OverLists ELSE {}) :
             /\ Len(as) <= task[p].asked + task[p].overBy
             /\ LoopNext(p, [task[p] EXCEPT
                              !.articles = as, !.i = 1,
                              \* lines 226, 323 (second definition)
                              !.report = IF task[p].variant = "v2"
                                         THEN GetRateLimitStatus(budget, clock)
                                         ELSE @])
        /\ UNCHANGED <<clock, budget, store, left, grantLog>>
     \/ /\ left.faults > 0
        /\ task' = [task EXCEPT ![p] = FetchThrows(task[p])]
        /\ running' = None
        /\ left' = [left EXCEPT !.faults = @ - 1]
        /\ UNCHANGED <<clock, budget, store, grantLog>>

\* existsByUrl answers (lines 54-59, 238-243, 332-336); when the URL is new,
\* generateSummaryAndEmbedding is called and runs up to its first await
\* (lines 62-65, 246-249, 338-339, 235-240, 157-165, 103-105).
ExistsDone(p) ==
  /\ CanRun(p)
  /\ task[p].pc = "io_exists"
  /\ \/ /\ Exists(task[p].articles[task[p].i])
        /\ LoopNext(p, CountSkipped(task[p]))
        /\ UNCHANGED <<clock, budget, store, left, grantLog>>
     \/ /\ ~Exists(task[p].articles[task[p].i])
        /\ StartRun(p, [task[p] EXCEPT !.summary = "none", !.embLen = 0,
                                       !.sumFor = "none", !.embFor = "none",
                                       !.enriched = @ + 1], "summary")
     \/ /\ left.faults > 0
        /\ \E e \in StoreErrors :
             LoopNext(p, BatchCatch([task[p] EXCEPT !.cause = "store"], e))
        /\ left' = [left EXCEPT !.faults = @ - 1]
        /\ UNCHANGED <<clock, budget, store, grantLog>>

CreateDoneCountsEarly(p) ==
  /\ CanRun(p)
  /\ task[p].pc = "io_create"
  /\ \/ /\ store' = Append(store, [url |-> task[p].articles[task[p].i],
                                   summary |-> task[p].summary,
                                   embLen |-> task[p].embLen,
                                   sumFor |-> task[p].sumFor,
                                   embFor |-> task[p].embFor,
                                   by |-> p])
        /\ LoopNext(p, CountSuccess(task[p]))
        /\ UNCHANGED <<clock, budget, left, grantLog>>
     \/ /\ left.faults > 0
        /\ \E e \in StoreErrors :
             LoopNext(p, BatchCatch([task[p] EXCEPT !.cause = "store",
                                                   !.success = @ + 1], e))
        /\ left' = [left EXCEPT !.faults = @ - 1]
        /\ UNCHANGED <<clock, budget, store, grantLog>>
CreateDoneFirst(p) ==
  /\ CanRun(p)
  /\ task[p].pc = "io_create"
  /\ store' = <<[url |-> task[p].articles[task[p].i],
                 summary |-> task[p].summary,
                 embLen |-> task[p].embLen,
                 sumFor |-> task[p].sumFor,
                 embFor |-> task[p].embFor,
                 by |-> p]>> \o store
  /\ LoopNext(p, CountSuccess(task[p]))
  /\ UNCHANGED <<clock, budget, left, grantLog>>
\* create answers (lines 68-79, 252-263, 341-351).  The INSERT names no
\* conflict target: on a table whose url column is UNIQUE (README lines
\* 53-57) a second row for a URL is rejected, on one without it is added.
CreateDone(p) ==
  /\ CanRun(p)
  /\ task[p].pc = "io_create"
  /\ \/ /\ Exists(task[p].articles[task[p].i])
        /\ LoopNext(p, BatchCatch([task[p] EXCEPT !.cause = "store"],
                                  DuplicateKeyError))
        /\ UNCHANGED <<clock, budget, store, left, grantLog>>
     \/ /\ store' = Append(store, [url |-> task[p].articles[task[p].i],
                                   summary |-> task[p].summary,
                                   embLen |-> task[p].embLen,
                                   sumFor |-> task[p].sumFor,
                                   embFor |-> task[p].embFor,
                                   by |-> p])
        /\ LoopNext(p, CountSuccess(task[p]))
        /\ UNCHANGED <<clock, budget, left, grantLog>>
     \/ /\ left.faults > 0
        /\ \E e \in StoreErrors :
             LoopNext(p, BatchCatch([task[p] EXCEPT !.cause = "store"], e))
        /\ left' = [left EXCEPT !.faults = @ - 1]
        /\ UNCHANGED <<clock, budget, store, grantLog>>

\* ------------------------------------------------------------ initial states
FreshBudget ==
  [requestCount |-> 0, requestResetTime |-> T0 + MINUTE_WINDOW,
   lastRequestTime |-> 0,
   dailyRequestCount |-> 0, dailyResetTime |-> T0 + DAY_WINDOW]

\* The AIService lives as long as the process: a run may start late in a day
\* window, after earlier requests; resetCounters() (lines 282-286) has just
\* restarted the minute window.
WarmDayBudget ==
  [requestCount |-> 0, requestResetTime |-> T0 + MINUTE_WINDOW,
   lastRequestTime |-> T0 - WarmSinceLast,
   dailyRequestCount |-> DAILY_LIMIT - DayHeadroom,
   dailyResetTime |-> T0 + WarmDayRemaining]

\* A run may start late in the first minute window, after earlier requests.
WarmMinuteBudget ==
  [requestCount |-> MAX_REQUESTS_PER_MINUTE - MinuteHeadroom,
   requestResetTime |-> T0 + WarmMinuteRemaining,
   lastRequestTime |-> T0 - WarmSinceLast,
   dailyRequestCount |-> MAX_REQUESTS_PER_MINUTE - MinuteHeadroom,
   dailyResetTime |-> T0 + WarmMinuteRemaining - MINUTE_WINDOW + DAY_WINDOW]

InitialBudgets == {FreshBudget, WarmDayBudget, WarmMinuteBudget}

NoReport ==
  [requestsUsedThisMinute |-> 0, requestsRemainingThisMinute |-> 0,
   minuteResetIn |-> 0, dailyRequestsUsed |-> 0, dailyRequestsRemaining |-> 0,
   dailyResetIn |-> 0]

NoStats == [totalArticles |-> 0, apiQuota |-> NoReport]

\* A text is the number of leading characters of the article's content it
\* keeps and the number of characters appended to them.
Text(n) == [kept |-> n, added |-> 0]
NoText == Text(0)
TextLength(x) == x.kept + x.added
\* String.prototype.substring(0, k)
Substring(x, k) ==
  IF k <= x.kept THEN [kept |-> k, added |-> 0]
  ELSE [kept |-> x.kept, added |-> IF k - x.kept < x.added THEN k - x.kept ELSE x.added]
\* x + '...'
PlusEllipsis(x) == [x EXCEPT !.added = @ + ELLIPSIS_LENGTH]

\* ai.service.ts lines 160-163: the text put into the summary prompt
SummaryText(x) ==
  IF TextLength(x) > SUMMARY_MAX_LENGTH
  THEN PlusEllipsis(Substring(x, SUMMARY_MAX_LENGTH))
  ELSE x
\* ai.service.ts lines 199-202: the text sent to embedContent
EmbeddingText(x) ==
  IF TextLength(x) > EMBEDDING_MAX_LENGTH
  THEN Substring(x, EMBEDDING_MAX_LENGTH)
  ELSE x

OffTask ==
  [top |-> "off", pc |-> "off", wake |-> 0, now |-> 0, err |-> NoErr,
   callsLeft |-> 0, failedCalls |-> 0, firstCallAt |-> 0,
   op |-> "none", attempt |-> 0, runAcq |-> 0, runCalls |-> 0, quotaFails |-> 0,
   summary |-> "none", embLen |-> 0, sumFor |-> "none", embFor |-> "none",
   variant |-> "none", entry |-> "none", max |-> 0, asked |-> 0,
   articles |-> <<>>, i |-> 0, success |-> 0, failed |-> 0, skipped |-> 0,
   errors |-> <<>>, stopped |-> FALSE, quotaAt |-> 0, enriched |-> 0,
   caught |-> <<>>, sleeps |-> <<>>, runErr |-> NoErr, cause |-> "none",
   report |-> NoReport, sumAt |-> 0, runStartAt |-> 0, callAt |-> 0,
   totalCalls |-> 0,
   stats |-> NoStats, statsLeft |-> 0, statsSeen |-> 0, minuteWait |-> FALSE,
   text |-> NoText, sumInput |-> NoText, embInput |-> NoText, overBy |-> 0,
   trail |-> <<>>, cancelled |-> FALSE, cancelAt |-> 0, cancelClock |-> 0]

AcquireTask(d) ==
  [OffTask EXCEPT !.top = "acquire", !.pc = "h_idle", !.wake = T0 + d,
                  !.callsLeft = MaxCalls]

\* the requests served: which definition of the file is deployed (v1: lines
\* 1-174, v2: lines 175-386), which entry point, which max.
Requests ==
  {[variant |-> "v2", entry |-> "category", max |-> 10],
   [variant |-> "v2", entry |-> "query", max |-> 3],
   [variant |-> "v1", entry |-> "category", max |-> 10],
   [variant |-> "v1", entry |-> "query", max |-> 2]}

BatchTask(r) ==
  [OffTask EXCEPT !.top = "batch", !.pc = "b_call", !.wake = T0,
                  !.variant = r.variant, !.entry = r.entry, !.max = r.max]

StoredRecord(u) ==
  [url |-> u, summary |-> "text", embLen |-> EMBEDDING_DIMENSIONS,
   sumFor |-> u, embFor |-> u, by |-> None]
InitialStores == {<<>>, <<StoredRecord("u2")>>}

InitCommon ==
  /\ clock = T0
  /\ budget \in InitialBudgets
  /\ running = None
  /\ grantLog = <<>>

InitAcquire ==
  /\ InitCommon
  /\ store = <<>>
  /\ left = [late |-> MaxLate, idles |-> MaxIdles, faults |-> 0]
  /\ \E d \in {0} \cup IdleDelays :
       task = [p \in Procs |-> IF p = "t1" THEN AcquireTask(d) ELSE OffTask]

\* two callers on the same AIService; their timers fire on time.
InitAcquire2 ==
  /\ InitCommon
  /\ store = <<>>
  /\ left = [late |-> 0, idles |-> MaxIdles, faults |-> 0]
  /\ \E d \in {0} \cup IdleDelays :
       task = [p \in Procs |-> IF p = "t1" THEN AcquireTask(d) ELSE AcquireTask(0)]

\* one batch; its timers fire on time.
Init ==
  /\ InitCommon
  /\ store \in InitialStores
  /\ left = [late |-> 0, idles |-> 0, faults |-> MaxFaults]
  /\ \E r \in Requests :
       task = [p \in Procs |-> IF p = "t1" THEN BatchTask(r) ELSE OffTask]

NextAcquire ==
  \/ Advance
  \/ \E p \in Procs :
       \/ HarnessCall(p)
       \/ WfrAfterMinuteSleep(p)
       \/ WfrAfterIntervalSleep(p)
       \/ HarnessReturn(p)
       \/ HarnessCatch(p)

Next ==
  \/ Advance
  \/ \E p \in Procs :
       \/ IngestStart(p)
       \/ FetchDone(p)
       \/ ExistsDone(p)
       \/ RetryCallFn(p)
       \/ RetryAcquireFailed(p)
       \/ FnDone(p)
       \/ BackoffDone(p)
       \/ InterCallSleepDone(p)
       \/ CreateDone(p)
       \/ WfrAfterMinuteSleep(p)
       \/ WfrAfterIntervalSleep(p)

\* A second request arrives when the first has been answered; the controller
\* hands it to the same IngestionService.
SecondBatch(p) ==
  /\ running = None
  /\ task[p].top = "off"
  /\ \E q \in Procs :
       /\ task[q].top = "batch"
       /\ task[q].pc \in {"b_done", "b_failed"}
       /\ task' = [task EXCEPT ![p] =
            [BatchTask([variant |-> task[q].variant, entry |-> task[q].entry,
                        max |-> task[q].max]) EXCEPT !.wake = clock]]
  /\ UNCHANGED <<clock, budget, running, store, left, grantLog>>

\* two batches, one after the other
InitTwo ==
  /\ InitCommon
  /\ store \in InitialStores
  /\ left = [late |-> 0, idles |-> 0, faults |-> MaxFaultsTwo]
  /\ \E r \in Requests :
       task = [p \in Procs |-> IF p = "t1" THEN BatchTask(r) ELSE OffTask]

NextTwo ==
  \/ Next
  \/ \E p \in Procs : SecondBatch(p)

SpecTwo == InitTwo /\ [][NextTwo]_vars

\* two requests of one article each are served at the same time by the same
\* IngestionService; the second arrives with or just after the first
ArrivalGaps == {0, 500}
InitBoth ==
  /\ InitCommon
  /\ store = <<>>
  /\ left = [late |-> 0, idles |-> 0, faults |-> MaxFaultsTwo]
  /\ \E g \in ArrivalGaps :
       task = [p \in Procs |->
                [BatchTask([variant |-> "v2", entry |-> "category", max |-> 1])
                   EXCEPT !.wake = IF p = "t1" THEN T0 ELSE T0 + g]]

SpecBoth == InitBoth /\ [][Next]_vars

\* one batch served by the first definition of the file
InitFirst ==
  /\ InitCommon
  /\ store \in InitialStores
  /\ left = [late |-> 0, idles |-> 0, faults |-> MaxFaultsTwo]
  /\ \E r \in {q \in Requests : q.variant = "v1"} :
       task = [p \in Procs |-> IF p = "t1" THEN BatchTask(r) ELSE OffTask]

SpecFirst == InitFirst /\ [][Next]_vars

\* one batch served by the first definition, on an empty table; the News
\* collaborator may return more articles than max= asked for
InitOver ==
  /\ InitCommon
  /\ store = <<>>
  /\ left = [late |-> 0, idles |-> 0, faults |-> MaxFaultsTwo]
  /\ \E r \in {q \in Requests : q.variant = "v1"} :
       task = [p \in Procs |->
                IF p = "t1" THEN [BatchTask(r) EXCEPT !.overBy = MaxOver]
                ELSE OffTask]

SpecOver == InitOver /\ [][Next]_vars

\* The caller of a batch asks for it to be cancelled while the batch is in
\* its candidate loop (the request is aborted, a deadline passes).  ingestNews and searchAndIngest take (category | query,
\* max) and nothing else, and sleep (ai.service.ts lines 88-90) is a bare
\* setTimeout: no code reads the request, which is kept as history only.
RequestCancel(p) ==
  /\ running = None
  /\ task[p].top = "batch"
  /\ task[p].pc \notin FinalPcs
  /\ task[p].i >= 1
  /\ ~task[p].cancelled
  /\ task' = [task EXCEPT ![p].cancelled = TRUE,
                          ![p].cancelAt = task[p].i,
                          ![p].cancelClock = clock]
  /\ UNCHANGED <<clock, budget, running, store, left, grantLog>>

\* one batch that may be cancelled; no collaborator fails
InitCancel ==
  /\ InitCommon
  /\ store \in InitialStores
  /\ left = [late |-> 0, idles |-> 0, faults |-> 0]
  /\ \E r \in Requests :
       task = [p \in Procs |-> IF p = "t1" THEN BatchTask(r) ELSE OffTask]

NextCancel ==
  \/ Next
  \/ \E p \in Procs : RequestCancel(p)

SpecCancel == InitCancel /\ [][NextCancel]_vars

\* ------------------------------------------------------------ getStats
\* the text of a non-negative integer in base 10, as PostgreSQL sends a
\* COUNT(*) (a bigint, which pg hands over as a string)
RECURSIVE DecimalDigits(_)
DecimalDigits(n) ==
  IF n < 10 THEN <<n>> ELSE DecimalDigits(n \div 10) \o <<n % 10>>

\* parseInt's result for a text with no leading digit of the radix
NaN == -1
\* parseInt(text, radix) on a text of decimal digits: the leading digits
\* below the radix are read in that radix, the rest is ignored.
RECURSIVE ParseFrom(_, _, _, _)
ParseFrom(ds, radix, k, acc) ==
  IF k > Len(ds) \/ ds[k] >= radix
  THEN acc
  ELSE ParseFrom(ds, radix, k + 1, acc * radix + ds[k])
ParseInt(ds, radix) ==
  IF Len(ds) = 0 \/ ds[1] >= radix THEN NaN ELSE ParseFrom(ds, radix, 1, 0)

\* articles.repository.ts lines 142-146
Count(st) == ParseInt(DecimalDigits(Len(st)), 5)

\* a client asks for the statistics some time after the batch was started,
\* and again some time after it got them
StatsDelays == {500, 12000}
StatsTask(d) ==
  [OffTask EXCEPT !.top = "stats", !.pc = "s_idle", !.wake = T0 + d,
                  !.statsLeft = MaxStats]
\* the client has its answer: it asks again later, or is done
StatsReturn(t) ==
  IF t.statsLeft > 0
  THEN {[t EXCEPT !.pc = "s_idle", !.wake = clock + d] : d \in StatsDelays}
  ELSE {[t EXCEPT !.pc = "s_done"]}

\* GET /stats arrives (part_002 lines 156-157) and getStats runs up to the
\* await of count()'s query (ingestion.service.ts line 378, repository
\* lines 143-145).
StatsCall(p) ==
  /\ CanRun(p)
  /\ task[p].pc = "s_idle"
  /\ task[p].statsLeft > 0
  /\ task' = [task EXCEPT ![p].pc = "io_count",
                          ![p].wake = clock + StoreLatency,
                          ![p].statsLeft = @ - 1]
  /\ UNCHANGED <<clock, budget, running, store, left, grantLog>>

StatsDoneResets(p) ==
  /\ CanRun(p)
  /\ task[p].pc = "io_count"
  /\ budget' = ResetWindows(budget, clock)
  /\ \E t \in StatsReturn(task[p]) :
       task' = [task EXCEPT ![p] =
         [t EXCEPT !.stats = [totalArticles |-> Count(store),
                              apiQuota |-> GetRateLimitStatus(budget', clock)],
                   !.statsSeen = @ + 1]]
  /\ running' = None
  /\ UNCHANGED <<clock, store, left, grantLog>>
\* the query answers and getStats returns (ingestion.service.ts lines
\* 378-384), or the query rejects and getStats rejects with it (repository
\* lines 147-150).
StatsDone(p) ==
  /\ CanRun(p)
  /\ task[p].pc = "io_count"
  /\ \E t \in StatsReturn(task[p]) :
       \/ /\ task' = [task EXCEPT ![p] =
               [t EXCEPT !.stats = [totalArticles |-> Count(store),
                                    apiQuota |-> GetRateLimitStatus(budget, clock)],
                         !.statsSeen = @ + 1]]
          /\ UNCHANGED left
       \/ /\ left.faults > 0
          /\ \E e \in StoreErrors :
               task' = [task EXCEPT ![p] = [t EXCEPT !.err = e]]
          /\ left' = [left EXCEPT !.faults = @ - 1]
  /\ running' = None
  /\ UNCHANGED <<clock, budget, store, grantLog>>

\* the table as earlier runs left it
StatsStores ==
  {<<>>,
   <<StoredRecord("a1"), StoredRecord("a2"), StoredRecord("a3"),
     StoredRecord("a4"), StoredRecord("a5")>>}

\* one batch of the second definition, and a client that asks for the
\* statistics while it runs
InitStats ==
  /\ InitCommon
  /\ store \in StatsStores
  /\ left = [late |-> 0, idles |-> 0, faults |-> MaxFaultsTwo]
  /\ \E r \in {q \in Requests : q.variant = "v2" /\ q.entry = "category"},
        d \in StatsDelays :
       task = [p \in Procs |-> IF p = "t1" THEN BatchTask(r) ELSE StatsTask(d)]

NextStats ==
  \/ Next
  \/ \E p \in Procs :
       \/ StatsCall(p)
       \/ StatsDone(p)

SpecStats == InitStats /\ [][NextStats]_vars

\* A call may arrive at the very millisecond the minute window ends, the
\* minimum interval since the last request just over.
EdgeBudget ==
  [requestCount |-> MAX_REQUESTS_PER_MINUTE - MinuteHeadroom,
   requestResetTime |-> T0,
   lastRequestTime |-> T0 - MIN_REQUEST_INTERVAL,
   dailyRequestCount |-> MAX_REQUESTS_PER_MINUTE - MinuteHeadroom,
   dailyResetTime |-> T0 - MINUTE_WINDOW + DAY_WINDOW]

\* one caller whose first call arrives at T0, on a window that ends at T0 or
\* on a day budget nearly spent
InitEdge ==
  /\ clock = T0
  /\ budget \in {EdgeBudget, WarmDayBudget}
  /\ running = None
  /\ grantLog = <<>>
  /\ store = <<>>
  /\ left = [late |-> MaxLate, idles |-> MaxIdles, faults |-> 0]
  /\ task = [p \in Procs |-> IF p = "t1" THEN AcquireTask(0) ELSE OffTask]

SpecEdge == InitEdge /\ [][NextAcquire]_vars
\* the event loop runs a task whose await has resolved, and timers fire
SpecEdgeLive == InitEdge /\ [][NextAcquire]_vars /\ WF_vars(NextAcquire)

\* ------------------------------------------------------------ truncation
\* generateSummaryAndEmbedding(text) hands the same text to generateSummary
\* and then to generateEmbedding (lines 240, 245); each prepares what it
\* submits.  Only the preparation is modelled here.
TextTask(n) == [OffTask EXCEPT !.top = "text", !.pc = "x_start", !.text = Text(n)]

SummaryInput(p) ==
  /\ running = None
  /\ task[p].top = "text"
  /\ task[p].pc = "x_start"
  /\ task' = [task EXCEPT ![p].pc = "x_summary",
                          ![p].sumInput = SummaryText(task[p].text)]
  /\ UNCHANGED <<clock, budget, running, store, left, grantLog>>

EmbeddingInput(p) ==
  /\ running = None
  /\ task[p].top = "text"
  /\ task[p].pc = "x_summary"
  /\ task' = [task EXCEPT ![p].pc = "x_done",
                          ![p].embInput = EmbeddingText(task[p].text)]
  /\ UNCHANGED <<clock, budget, running, store, left, grantLog>>

InitText ==
  /\ InitCommon
  /\ store = <<>>
  /\ left = [late |-> 0, idles |-> 0, faults |-> 0]
  /\ \E n \in 0..MaxTextLen :
       task = [p \in Procs |-> IF p = "t1" THEN TextTask(n) ELSE OffTask]

NextText ==
  \E p \in Procs :
    \/ SummaryInput(p)
    \/ EmbeddingInput(p)

SpecText == InitText /\ [][NextText]_vars

SpecAcquire == InitAcquire /\ [][NextAcquire]_vars
SpecAcquire2 == InitAcquire2 /\ [][NextAcquire]_vars
Spec == Init /\ [][Next]_vars
\* one batch of at most one article on an empty store; the event loop runs a task whose await has
\* resolved, and timers fire
InitLive ==
  /\ InitCommon
  /\ store = <<>>
  /\ left = [late |-> 0, idles |-> 0, faults |-> MaxFaults]
  /\ task = [p \in Procs |->
              IF p = "t1"
              THEN BatchTask([variant |-> "v2", entry |-> "category", max |-> 1])
              ELSE OffTask]

SpecLive == InitLive /\ [][Next]_vars /\ WF_vars(Next)

\* ------------------------------------------------------------ claims
Callers == {p \in Procs : task[p].top = "acquire"}

Batches == {p \in Procs : task[p].top = "batch"}
Returned(p) == task[p].pc = "b_done"
Counted(p) == task[p].success + task[p].failed + task[p].skipped
Total(p) == Len(task[p].articles)
IsEarlyStopEntry(e) == Len(e) = 5 /\ e[1] = "Quota" /\ e[2] = "exceeded" /\ e[3] = "after"
EarlyStop(p) == \E k \in 1..Len(task[p].errors) : IsEarlyStopEntry(task[p].errors[k])

\* C1: in every returned batch result success + failed + skipped <= total,
\* the sum is below total only when the error list has an early-stop (quota)
\* entry, and without such an entry the sum equals total.
C1_CountsWithinTotal ==
  \A p \in Batches :
    Returned(p) =>
      /\ Counted(p) <= Total(p)
      /\ (Counted(p) < Total(p) => EarlyStop(p))
      /\ (~EarlyStop(p) => Counted(p) = Total(p))

C1_Witness ==
  \E p \in Batches :
    /\ Returned(p)
    /\ Counted(p) < Total(p)
    /\ EarlyStop(p)
    /\ task[p].success > 0

\* C2 (as claimed): once a candidate's enrichment has failed with quota
\* exhaustion, from the rate limiter's daily check or from the retry loop
\* running out of attempts on 429s, the batch counts that one failure, adds
\* one error entry and goes on to no later candidate.
C2_QuotaStopsBatch ==
  \A p \in Batches :
    (task[p].variant = "v2" /\ task[p].quotaAt > 0) =>
      /\ task[p].pc = "b_done"
      /\ Len(task[p].errors) = task[p].failed

\* C3 (as claimed): when waitForRateLimit throws the daily-quota error
\* inside retryWithBackoff, the run fails at once: it is not found in a
\* backoff sleep or in a further attempt afterwards.
C3_QuotaFailsRunAtOnce ==
  \A p \in Batches :
    task[p].pc \in {"rb_backoff", "wfr_sleep_minute", "wfr_sleep_interval",
                    "wfr_ret", "wfr_throw", "io_fn"}
      => task[p].quotaFails = 0

\* C10: within one run of retryWithBackoff the slots reserved equal the
\* invocations of the operation, except between a granted acquire and the
\* invocation that follows it at once; so every invocation has its own
\* acquire just before it.
C10_AcquireBeforeEveryAttempt ==
  \A p \in Batches :
    /\ task[p].pc = "wfr_ret" => task[p].runAcq = task[p].runCalls + 1
    /\ task[p].pc # "wfr_ret" => task[p].runAcq = task[p].runCalls
    /\ task[p].pc = "wfr_ret" => running = p

C10_Witness ==
  \E p \in Batches :
    /\ task[p].pc = "io_fn"
    /\ task[p].attempt = 2
    /\ task[p].runCalls = 3
    /\ task[p].runAcq = 3

\* C4 (as claimed): minuteCount never exceeds MAX_PER_MINUTE, also when two
\* callers share the budget and interleave at the sleeps of acquire.
C4_MinuteCountWithinCap == budget.requestCount <= MAX_REQUESTS_PER_MINUTE

\* C5 (as claimed): dayCount never exceeds MAX_PER_DAY, under any sequence
\* or interleaving of acquire() calls.
C5_DayCountWithinCap == budget.dailyRequestCount <= DAILY_LIMIT

\* C6: an acquire() called when the day counter is at the cap and the day
\* window has not passed throws the daily-quota error in the same step (no
\* sleep, no time passing) and leaves both counters and lastRequestTime as
\* they were.
C6_ExhaustedFailsAtOnce ==
  [][\A p \in Procs :
       (/\ task[p].pc = "h_idle"
        /\ task'[p].pc # "h_idle"
        /\ budget.dailyRequestCount >= DAILY_LIMIT
        /\ clock <= budget.dailyResetTime)
       => (/\ task'[p].pc = "wfr_throw"
           /\ task'[p].err = DailyQuotaError
           /\ running' = p
           /\ clock' = clock
           /\ budget'.dailyRequestCount = budget.dailyRequestCount
           /\ budget'.requestCount <= budget.requestCount
           /\ budget'.lastRequestTime = budget.lastRequestTime
           /\ grantLog' = grantLog)]_vars

C6_Witness ==
  \E p \in Procs :
    /\ task[p].pc = "wfr_throw"
    /\ budget.dailyRequestCount = DAILY_LIMIT
    /\ clock <= budget.dailyResetTime
    /\ Len(grantLog) = DayHeadroom

\* C7: for one sequential caller, any 11 successive granted acquires span at
\* least 60 s, so no 60-second interval [t, t + 60 s) holds more than 10.
C7_RollingWindow ==
  \A i \in 1..Len(grantLog) :
    i + MAX_REQUESTS_PER_MINUTE <= Len(grantLog)
      => grantLog[i + MAX_REQUESTS_PER_MINUTE] - grantLog[i] >= MINUTE_WINDOW

C7_Witness ==
  /\ Len(grantLog) > MAX_REQUESTS_PER_MINUTE
  /\ grantLog[1 + MAX_REQUESTS_PER_MINUTE] - grantLog[1] = MINUTE_WINDOW

\* C8: the 12th granted acquire of one caller comes no earlier than 66 s
\* after that caller's first acquire() call started.
C8_TwelveTakeSixtySix ==
  \A p \in Callers :
    Len(grantLog) >= 12 => grantLog[12] - task[p].firstCallAt >= 66000

C8_Witness ==
  /\ budget.dailyResetTime = T0 + DAY_WINDOW
  /\ left.idles = MaxIdles
  /\ \E p \in Callers : task[p].firstCallAt = T0
  /\ Len(grantLog) = 12
  /\ budget.dailyRequestCount = 12

\* C9: for one sequential caller, each granted acquire records a
\* lastRequestTime at least MIN_REQUEST_INTERVAL after the previous one.
C9_MinInterval ==
  [][Len(grantLog') > Len(grantLog)
       => budget'.lastRequestTime >= budget.lastRequestTime + MIN_REQUEST_INTERVAL]_vars

C9_Witness ==
  /\ Len(grantLog) >= 2
  /\ grantLog[2] = grantLog[1] + MIN_REQUEST_INTERVAL
  /\ budget.lastRequestTime = grantLog[Len(grantLog)]

\* ---- retryWithBackoff (the run of one operation)
RunPcs == {"wfr_sleep_minute", "wfr_sleep_interval", "wfr_ret", "wfr_throw",
           "io_fn", "rb_backoff"}
InRun(p) == task[p].top = "batch" /\ task[p].pc \in RunPcs
Caught(p) == task[p].caught
Slept(p) == task[p].sleeps

\* C11: when the catch block of a run has received a 404 in its k-th attempt,
\* that attempt is the run's last, the run is over and has thrown 'AI model
\* not available: <message>', and it slept only after the k - 1 earlier
\* failures; a 404 in the first attempt leaves exactly one invocation.
C11_NotFoundFailsAtOnce ==
  \A p \in Batches : \A k \in 1..Len(Caught(p)) :
    Caught(p)[k].status = 404 =>
      /\ k = Len(Caught(p))
      /\ ~InRun(p)
      /\ task[p].runErr.message =
           <<"AI", "model", "not", "available", ":">> \o Caught(p)[k].message
      /\ Len(Slept(p)) = k - 1
      /\ task[p].runCalls <= k
      /\ (k = 1 => task[p].runCalls = 1)

C11_Witness ==
  \E p \in Batches :
    /\ Len(Caught(p)) = 2
    /\ Caught(p)[1].status = 500
    /\ Caught(p)[2].status = 404
    /\ task[p].runCalls = 2
    /\ Slept(p) = <<3000>>

\* C12: a run invokes the operation at most MAX_RETRIES times; after three
\* 429 answers it has thrown 'Rate limit exceeded after 3 attempts...' with
\* three invocations made; and every run ends.
C12_BoundedAttempts ==
  /\ [](\A p \in Procs :
         /\ task[p].runCalls <= MAX_RETRIES
         /\ Len(Caught(p)) <= MAX_RETRIES
         /\ (/\ Len(Caught(p)) = 3
             /\ \A k \in 1..3 : Caught(p)[k].status = 429)
            => (/\ ~InRun(p)
                /\ task[p].runCalls = 3
                /\ task[p].runErr = RateLimitExceeded))
  /\ \A p \in Procs : InRun(p) ~> ~InRun(p)

C12_Witness ==
  \E p \in Batches :
    /\ Len(Caught(p)) = 3
    /\ \A k \in 1..3 : Caught(p)[k].status = 429
    /\ task[p].runCalls = 3
    /\ task[p].runErr = RateLimitExceeded

\* C13: a 429 caught in the zero-based attempt k < 2 is followed by a sleep
\* of max(the server's retry delay, 3000 * 2^k), of 3000 * 2^k when the
\* server names none; a 429 in the last attempt is followed by no sleep and
\* the run throws 'Rate limit exceeded after 3 attempts...'.
C13_RateLimitedDelay ==
  \A p \in Batches : \A k \in 1..Len(Caught(p)) :
    Caught(p)[k].status = 429 =>
      IF k < MAX_RETRIES
      THEN /\ Len(Slept(p)) >= k
           /\ Slept(p)[k] >= 3000 * (2 ^ (k - 1))
           /\ Slept(p)[k] >= Caught(p)[k].retry
           /\ Slept(p)[k] \in {3000 * (2 ^ (k - 1)), Caught(p)[k].retry}
      ELSE /\ Len(Slept(p)) = MAX_RETRIES - 1
           /\ ~InRun(p)
           /\ task[p].runErr = RateLimitExceeded

C13_Witness ==
  \E p \in Batches :
    /\ Len(Caught(p)) = 3
    /\ Caught(p)[1].status = 429 /\ Caught(p)[1].retry = 20000
    /\ Caught(p)[2].status = 429 /\ Caught(p)[2].retry = 1000
    /\ Caught(p)[3].status = 429
    /\ Slept(p) = <<20000, 6000>>
    /\ task[p].runErr = RateLimitExceeded

\* C14: an error that is neither a 404 nor a 429, caught in the zero-based
\* attempt k < 2, is followed by a sleep of 3000 * 2^k and another attempt;
\* caught in the last attempt it is what the run throws, unchanged; and a run
\* that returns after such a failure hands on the operation's result.
IsOther(e) == e.status \notin {404, 429}
C14_TransientRetried ==
  \A p \in Batches :
    /\ \A k \in 1..Len(Caught(p)) :
         IsOther(Caught(p)[k]) =>
           IF k < MAX_RETRIES
           THEN /\ Len(Slept(p)) >= k
                /\ Slept(p)[k] = 3000 * (2 ^ (k - 1))
                /\ (k = Len(Caught(p)) /\ task[p].pc # "rb_backoff"
                      => task[p].attempt = k)
           ELSE /\ ~InRun(p)
                /\ Len(Slept(p)) = MAX_RETRIES - 1
                /\ task[p].runErr = Caught(p)[k]
    /\ (task[p].pc = "g_sleep" =>
          task[p].runErr = NoErr /\ task[p].summary = "text")

C14_Witness ==
  \E p \in Batches :
    /\ task[p].pc = "g_sleep"
    /\ Len(Caught(p)) = 2
    /\ \A k \in 1..2 : Caught(p)[k].status = 500
    /\ Slept(p) = <<3000, 6000>>
    /\ task[p].summary = "text"

C14_WitnessRethrow ==
  \E p \in Batches :
    /\ Len(Caught(p)) = 3
    /\ Caught(p)[3].status = 500
    /\ task[p].runErr = Caught(p)[3]

\* ---- enrichment
LastError(t) == t.errors[Len(t.errors)]

\* C15: in the step in which embedContent answers a vector of a length other
\* than 768, the candidate is counted as failed with an 'Invalid embedding
\* dimensions: <length>' entry, the retry loop's catch block is not entered
\* and no slot is reserved (no retry), nothing is stored, no create call is
\* pending, and the loop is at the next candidate or has returned.
C15_BadEmbeddingFails ==
  [][\A p \in Procs :
       (/\ task[p].pc = "io_fn"
        /\ task[p].op = "embedding"
        /\ task'[p].embLen # task[p].embLen
        /\ task'[p].embLen # EMBEDDING_DIMENSIONS)
       => (/\ task'[p].failed = task[p].failed + 1
           /\ task'[p].success = task[p].success
           /\ task'[p].skipped = task[p].skipped
           /\ Len(task'[p].errors) = Len(task[p].errors) + 1
           /\ Includes(LastError(task'[p]),
                       <<"Invalid", "embedding", "dimensions", ":",
                         ToString(task'[p].embLen)>>)
           /\ task'[p].caught = task[p].caught
           /\ task'[p].runCalls = task[p].runCalls
           /\ budget' = budget
           /\ store' = store
           /\ task'[p].i = task[p].i + 1
           /\ task'[p].pc \in {"io_exists", "b_done"})]_vars

C15_Witness ==
  \E p \in Batches :
    /\ task[p].embLen = 700
    /\ task[p].embFor = "u1"
    /\ task[p].i = 2
    /\ task[p].failed = 1
    /\ task[p].caught = <<>>
    /\ ~Exists("u1")
    /\ task[p].pc = "io_exists"

\* C16: every record a batch has stored, and every create call in flight,
\* carries the summary a generateSummary call returned and a vector of 768
\* values a generateEmbedding call returned, both made for the candidate the
\* record is for.
Complete(r, url) ==
  /\ r.summary = "text"
  /\ r.embLen = 768
  /\ r.sumFor = url
  /\ r.embFor = url
C16_NoPartialEnrichment ==
  /\ \A k \in 1..Len(store) : Complete(store[k], store[k].url)
  /\ \A p \in Batches :
       task[p].pc = "io_create" =>
         /\ Complete(task[p], task[p].articles[task[p].i])
         /\ task[p].runErr = NoErr

C16_Witness ==
  \E p \in Batches : \E k \in 1..Len(store) :
    /\ store[k].by = p
    /\ store[k].url = "u3"
    /\ task[p].failed > 0
    /\ task[p].success > 1

\* ---- the candidate loop
Stored(url) == \E k \in 1..Len(store) : store[k].url = url
Candidate(p) == task[p].articles[task[p].i]

\* C17: in the step in which existsByUrl answers for a candidate whose URL
\* is stored, skipped grows by one and the loop is at the next candidate or
\* has returned; success, failed, the error list, the rate-limit fields, the
\* count of reserved slots, the count of enrichments started and the store
\* are as before.
C17_ExistingIsSkipped ==
  [][\A p \in Procs :
       (/\ task[p].pc = "io_exists"
        /\ Stored(Candidate(p))
        /\ task'[p] # task[p]
        /\ task'[p].failed = task[p].failed)
       => (/\ task'[p].skipped = task[p].skipped + 1
           /\ task'[p].i = task[p].i + 1
           /\ task'[p].pc \in {"io_exists", "b_done"}
           /\ task'[p].success = task[p].success
           /\ task'[p].errors = task[p].errors
           /\ task'[p].enriched = task[p].enriched
           /\ task'[p].runCalls = task[p].runCalls
           /\ budget' = budget
           /\ grantLog' = grantLog
           /\ store' = store)]_vars

C17_Witness ==
  \E p \in Batches :
    /\ task[p].articles = <<"u1", "u2", "u3">>
    /\ task[p].i = 3
    /\ task[p].skipped = 1
    /\ task[p].success = 1
    /\ task[p].enriched = 1
    /\ Len(grantLog) = 2
    /\ store[1].url = "u2"

StoredBy(p) == {store[k].url : k \in {j \in 1..Len(store) : store[j].by = p}}

\* C18: the store never holds two records with one URL; create is never
\* called for a URL that is stored; and in a batch that returned with no
\* failure every candidate other than the first occurrence of a URL that was
\* not stored yet was skipped, within one batch and across two batches run
\* one after the other.
C18_NoDuplicateRecords ==
  /\ \A j, k \in 1..Len(store) : store[j].url = store[k].url => j = k
  /\ \A p \in Batches :
       /\ task[p].pc = "io_create" => ~Stored(Candidate(p))
       /\ (Returned(p) /\ task[p].failed = 0) =>
            /\ task[p].success = Cardinality(StoredBy(p))
            /\ task[p].skipped = Total(p) - Cardinality(StoredBy(p))

C18_Witness ==
  \E p, q \in Batches :
    /\ Returned(p) /\ Returned(q)
    /\ task[p].articles = <<"u1", "u1", "u2">>
    /\ task[p].success = 2 /\ task[p].skipped = 1
    /\ task[q].articles = <<"u1", "u2", "u3">>
    /\ task[q].success = 1 /\ task[q].skipped = 2
    /\ Len(store) = 3

\* C19 (as claimed): in both entry points and both definitions the count
\* handed to fetchNews / searchNews is min(max, 3).
C19_CountIsClamped ==
  \A p \in Batches :
    task[p].pc # "b_call" =>
      task[p].asked = (IF task[p].max > 3 THEN 3 ELSE task[p].max)

\* C20 (as claimed): the candidate loop ends before the last candidate only
\* when the failure it caught was quota exhaustion (the daily check of
\* waitForRateLimit, or retryWithBackoff out of attempts on 429s); a Store
\* error, a validation error or another upstream error never ends it.
C20_OnlyQuotaStopsBatch ==
  \A p \in Batches : task[p].stopped => task[p].cause = "quota"

\* ---- the batch result
IsFailure(x) == x.out = "failed"
FailedAt(p) == SelectSeq(task[p].trail, IsFailure)
UrlPrefixed(entry, url) == Len(entry) > 2 /\ entry[1] = url /\ entry[2] = ":"

\* C21 (as claimed): in a step in which a candidate fails for a reason other
\* than quota exhaustion, failed grows by one, one entry '<url>: <message>'
\* with the candidate's URL is appended, and the loop goes on to the next
\* candidate.
C21_FailureIsRecorded ==
  [][\A p \in Procs :
       (/\ task'[p].failed # task[p].failed
        /\ task'[p].cause # "quota")
       => (/\ task'[p].failed = task[p].failed + 1
           /\ Len(task'[p].errors) = Len(task[p].errors) + 1
           /\ SubSeq(task'[p].errors, 1, Len(task[p].errors)) = task[p].errors
           /\ UrlPrefixed(LastError(task'[p]), Candidate(p))
           /\ ~task'[p].stopped
           /\ task'[p].i = task[p].i + 1)]_vars

\* C22 (as claimed): a returned result has one error entry per failed
\* candidate, in the order the candidates were processed, each starting with
\* the URL of the candidate it is for.
C22_ErrorsMatchFailures ==
  \A p \in Batches :
    Returned(p) =>
      /\ Len(task[p].errors) = task[p].failed
      /\ Len(FailedAt(p)) = task[p].failed
      /\ \A k \in 1..Len(task[p].errors) :
           UrlPrefixed(task[p].errors[k], task[p].articles[FailedAt(p)[k].i])

\* ---- one candidate
\* Fetched (0), Enriching (1), create in flight (2), the loop has ended (3)
Phase(t) ==
  IF t.pc \in RunPcs \cup {"g_sleep"} THEN 1
  ELSE IF t.pc = "io_create" THEN 2
  ELSE IF t.pc \in {"b_done", "b_failed"} THEN 3
  ELSE 0
CountOf(t) == t.success + t.failed + t.skipped
Outcomes(t, o) == Cardinality({k \in 1..Len(t.trail) : t.trail[k].out = o})

\* C23: the loop leaves candidates 1, 2, ... in turn, each with exactly one
\* outcome, counted in exactly one counter; a candidate is skipped only from
\* the dedup check and persisted only from its create call;
\* generateSummaryAndEmbedding is called only from the dedup check of a
\* candidate, whose phase never goes back, so at most once per candidate.
C23_CandidateLifecycle ==
  /\ [](\A p \in Batches :
          LET t == task[p] IN
          /\ \A k \in 1..Len(t.trail) : t.trail[k].i = k
          /\ Len(t.trail) = CountOf(t)
          /\ t.success = Outcomes(t, "persisted")
          /\ t.failed = Outcomes(t, "failed")
          /\ t.skipped = Outcomes(t, "skipped")
          /\ (t.pc \in RunPcs \cup {"g_sleep", "io_create", "io_exists"}
                => t.i = Len(t.trail) + 1)
          /\ t.enriched <= t.i)
  /\ [][\A p \in Procs :
         LET t == task[p]
             u == task'[p]
         IN t.top = "batch" =>
              /\ u.i >= t.i
              /\ (u.i = t.i => Phase(u) >= Phase(t))
              /\ (u.enriched # t.enriched =>
                    /\ u.enriched = t.enriched + 1
                    /\ Phase(t) = 0 /\ Phase(u) = 1 /\ u.i = t.i)
              /\ u.success >= t.success
              /\ u.failed >= t.failed
              /\ u.skipped >= t.skipped
              /\ CountOf(u) \in {CountOf(t), CountOf(t) + 1}
              /\ (CountOf(u) = CountOf(t) + 1
                    <=> (t.i > 0 /\ (u.i = t.i + 1 \/ (u.stopped /\ ~t.stopped))))
              /\ (u.skipped # t.skipped => t.pc = "io_exists")
              /\ (u.success # t.success => t.pc = "io_create")]_vars

C23_Witness ==
  \E p \in Batches :
    /\ Returned(p)
    /\ Len(task[p].trail) = 3
    /\ task[p].trail[1].out = "persisted"
    /\ task[p].trail[2].out = "skipped"
    /\ task[p].trail[3].out = "failed"
    /\ task[p].enriched = 2

\* C24 (as claimed): once cancellation of a batch has been requested, the
\* batch starts no candidate after the one it was at, a sleep it is in does
\* not outlast the request, and the result it returns has a cancellation
\* entry.
SleepPcs == {"wfr_sleep_minute", "wfr_sleep_interval", "rb_backoff", "g_sleep"}
IsCancelEntry(e) == \E k \in 1..Len(e) : e[k] \in {"cancelled", "Cancelled"}
C24_CancellationStopsBatch ==
  \A p \in Batches :
    task[p].cancelled =>
      /\ task[p].i <= task[p].cancelAt
      /\ (task[p].pc \in SleepPcs => task[p].wake <= task[p].cancelClock)
      /\ (Returned(p) =>
            \E k \in 1..Len(task[p].errors) : IsCancelEntry(task[p].errors[k]))

\* C25: when fetchNews / searchNews rejects, the batch call rejects with
\* 'News fetch failed' / 'News search failed': it returns no result, never
\* reaches the candidate loop, and the store, the rate-limit fields and the
\* reserved slots are as they were when the fetch was answered; nothing of
\* the batch runs afterwards.
C25_FetchFailureFailsBatch ==
  /\ [](\A p \in Batches :
          task[p].pc = "b_failed" =>
            /\ task[p].err.message \in {<<"News", "fetch", "failed">>,
                                         <<"News", "search", "failed">>}
            /\ ~Returned(p)
            /\ task[p].i = 0 /\ task[p].articles = <<>>
            /\ task[p].trail = <<>> /\ task[p].errors = <<>>
            /\ task[p].enriched = 0 /\ task[p].runAcq = 0
            /\ StoredBy(p) = {})
  /\ [][\A p \in Procs :
         /\ (task[p].pc = "io_fetch" /\ left'.faults # left.faults)
              => (/\ task'[p].pc = "b_failed"
                  /\ store' = store /\ budget' = budget /\ grantLog' = grantLog)
         /\ (task[p].pc = "b_failed" => task'[p] = task[p])]_vars

C25_Witness ==
  \E p \in Batches :
    /\ task[p].pc = "b_failed"
    /\ task[p].entry = "query"
    /\ task[p].err.message = <<"News", "search", "failed">>
    /\ left.faults = MaxFaults - 1

\* ---- order
IsPersisted(x) == x.out = "persisted"
PersistedAt(p) == SelectSeq(task[p].trail, IsPersisted)
RecordsOf(p) == SelectSeq(store, LAMBDA r : r.by = p)

\* C26: the loop leaves the candidates in fetch order; a dedup check or a
\* create call is in flight only for the candidate after the last one that
\* has its outcome; and the records a batch has stored are, in store order,
\* those of its persisted candidates in the order their enrichment completed
\* (which is processing order).
C26_OneAtATimeInOrder ==
  \A p \in Batches :
    LET t == task[p] IN
    /\ \A k \in 1..Len(t.trail) : t.trail[k].i = k
    /\ (t.pc \in {"io_exists", "io_create"} => t.i = Len(t.trail) + 1)
    /\ (t.pc = "io_create" => t.embFor = t.articles[t.i])
    /\ Len(RecordsOf(p)) = Len(PersistedAt(p))
    /\ \A k \in 1..Len(RecordsOf(p)) :
         RecordsOf(p)[k].url = t.articles[PersistedAt(p)[k].i]

C26_Witness ==
  \E p \in Batches :
    /\ Returned(p)
    /\ Len(store) = 3
    /\ store[1].by = None
    /\ Len(RecordsOf(p)) = 2
    /\ PersistedAt(p)[1].i = 1
    /\ PersistedAt(p)[2].i = 3

C28_TwoCallsPerArticle ==
  \A p \in Batches :
    (/\ Returned(p)
     /\ task[p].skipped = 0
     /\ task[p].failed = 0
     /\ left.faults = MaxFaults)
    => (/\ task[p].totalCalls = 2 * Total(p)
        /\ Len(grantLog) = 2 * Total(p)
        /\ task[p].success = Total(p))

C28_Witness ==
  \E p \in Batches :
    /\ Returned(p)
    /\ Total(p) = 3
    /\ task[p].success = 3
    /\ left.faults = MaxFaults
    /\ task[p].totalCalls = 6
    /\ Len(grantLog) = 6

\* C29 (as claimed): a batch of three new articles served by the second
\* definition, whose first two are persisted and whose third fails because
\* embedContent answers 404, returns success 2, failed 1, skipped 0, total 3
\* and the one error entry '<url3>: AI model not available: <message>'.
C29_NotFoundExample ==
  \A p \in Batches :
    LET t == task[p] IN
    (/\ Returned(p)
     /\ t.variant = "v2"
     /\ Total(p) = 3
     /\ Len(t.trail) = 3
     /\ t.trail[1].out = "persisted"
     /\ t.trail[2].out = "persisted"
     /\ t.trail[3].out = "failed"
     /\ t.op = "embedding"
     /\ Len(t.caught) > 0
     /\ t.caught[Len(t.caught)].status = 404)
    => (/\ t.success = 2 /\ t.failed = 1 /\ t.skipped = 0
        /\ t.errors =
             << <<t.articles[3], ":", "AI", "model", "not", "available", ":">>
                  \o t.caught[Len(t.caught)].message >>)

StatsCallers == {p \in Procs : task[p].top = "stats"}
StatusMatches(r, b) ==
  /\ r.requestsUsedThisMinute = b.requestCount
  /\ r.dailyRequestsUsed = b.dailyRequestCount
  /\ r.requestsRemainingThisMinute =
       (IF b.requestCount >= MAX_REQUESTS_PER_MINUTE
        THEN 0 ELSE MAX_REQUESTS_PER_MINUTE - b.requestCount)
  /\ r.dailyRequestsRemaining =
       (IF b.dailyRequestCount >= DAILY_LIMIT
        THEN 0 ELSE DAILY_LIMIT - b.dailyRequestCount)
\* C30: getStats and getRateLimitStatus are read-only.  No step of a
\* statistics request changes a rate-limit field or the table, and neither
\* does the step of a batch that reads the status; the status a request
\* returns reports the remaining minute and day budget as
\* max(0, cap - count) of the counts held at that moment, and the counts
\* themselves.
C30_StatusIsReadOnly ==
  [][/\ \A p \in StatsCallers :
          task'[p] # task[p]
          => (/\ budget' = budget
              /\ store' = store
              /\ task'[p].statsSeen # task[p].statsSeen
                 => StatusMatches(task'[p].stats.apiQuota, budget))
     /\ \A p \in Batches :
          task'[p].report # task[p].report
          => (/\ budget' = budget
              /\ store' = store
              /\ StatusMatches(task'[p].report, budget))]_vars
\* the statistics were returned while a batch was waiting for the minute
\* window to end, with the window full
C30_Witness ==
  \E p \in StatsCallers, q \in Batches :
    /\ task[p].statsSeen >= 1
    /\ task[p].stats.apiQuota.requestsRemainingThisMinute = 0
    /\ task[p].stats.apiQuota.requestsUsedThisMinute = MAX_REQUESTS_PER_MINUTE
    /\ task[p].stats.apiQuota.minuteResetIn > 0
    /\ task[q].pc = "wfr_sleep_minute"
    /\ budget.requestCount = MAX_REQUESTS_PER_MINUTE
    /\ Len(grantLog) >= 2

\* C31 (as claimed): the totalArticles a statistics request returns is the
\* number of records in the table at that moment, whatever that number is,
\* and the result carries the rate-limit status of that moment.
C31_StatsCountsRecords ==
  [][\A p \in StatsCallers :
       task'[p].statsSeen # task[p].statsSeen
       => (/\ task'[p].stats.totalArticles = Len(store)
           /\ StatusMatches(task'[p].stats.apiQuota, budget))]_vars

\* C32 (as claimed): a call of waitForRateLimit that arrives when Date.now()
\* is at or past the end of the minute window, the instant of the end
\* included, starts a new 60-second window with the count at 0, so that a
\* slot it reserves at once is the first of the new window.
C32_ResetAtWindowEnd ==
  [][\A p \in Callers :
       (/\ task[p].pc = "h_idle"
        /\ task'[p].pc # "h_idle"
        /\ clock >= budget.requestResetTime)
       => (/\ budget'.requestResetTime = clock + MINUTE_WINDOW
           /\ budget'.requestCount = (IF task'[p].pc = "wfr_ret" THEN 1 ELSE 0))]_vars

\* C33: a call of waitForRateLimit by a single caller that finds the minute
\* count at the cap while day budget remains sleeps until the end of the
\* minute window, then sets the count to 0 and starts a new window, does not
\* throw, and in the end reserves a slot, which leaves the count at 1.
C33_FullMinuteWaitsThenGrants ==
  /\ [][\A p \in Callers :
          /\ task[p].pc = "wfr_sleep_minute"
             => (/\ task'[p].pc \in {"wfr_sleep_minute", "wfr_sleep_interval", "wfr_ret"}
                 /\ task'[p].pc # "wfr_sleep_minute"
                    => (/\ clock >= budget.requestResetTime
                        /\ budget'.requestResetTime = clock + MINUTE_WINDOW
                        /\ budget'.requestCount =
                             (IF task'[p].pc = "wfr_ret" THEN 1 ELSE 0)))
          /\ (task[p].pc = "wfr_sleep_interval" /\ task[p].minuteWait)
             => (/\ task'[p].pc \in {"wfr_sleep_interval", "wfr_ret"}
                 /\ task'[p].pc = "wfr_ret" => budget'.requestCount = 1)]_vars
  /\ \A p \in Procs :
       (task[p].pc = "wfr_sleep_minute") ~> (task[p].pc = "wfr_ret")
C33_Witness ==
  \E p \in Callers :
    /\ task[p].pc = "wfr_ret"
    /\ task[p].minuteWait
    /\ budget.requestCount = 1
    /\ budget.dailyRequestCount > MAX_REQUESTS_PER_MINUTE

\* C34 (as claimed): the text put into the summarization request is never
\* longer than 3000 characters and the text put into the embedding request
\* never longer than 2000, whatever the length of the input, and an input
\* within the limit is submitted as it is.
C34_InputsWithinLimits ==
  \A p \in Procs :
    LET t == task[p] IN
    /\ t.pc \in {"x_summary", "x_done"}
       => (/\ TextLength(t.sumInput) <= SUMMARY_MAX_LENGTH
           /\ TextLength(t.text) <= SUMMARY_MAX_LENGTH => t.sumInput = t.text)
    /\ t.pc = "x_done"
       => (/\ TextLength(t.embInput) <= EMBEDDING_MAX_LENGTH
           /\ TextLength(t.text) <= EMBEDDING_MAX_LENGTH => t.embInput = t.text)

\* C35 (as claimed): with two callers of waitForRateLimit on the same
\* AIService, any two granted acquires are at least MIN_REQUEST_INTERVAL
\* apart.
C35_MinIntervalTwoCallers ==
  \A i, j \in 1..Len(grantLog) :
    i < j => grantLog[j] - grantLog[i] >= MIN_REQUEST_INTERVAL

\* C36 (as claimed): when two batches run at the same time on the same
\* table and both hold the same URL, not yet stored, create is called for
\* that URL by at most one of them.
CreateCalled(p, u) ==
  \/ /\ task[p].pc = "io_create"
     /\ task[p].articles[task[p].i] = u
  \/ \E k \in 1..Len(store) : store[k].url = u /\ store[k].by = p
C36_CreateCalledOnce ==
  \A p, q \in Batches :
    p # q => \A u \in {"u1", "u2", "u3"} : ~(CreateCalled(p, u) /\ CreateCalled(q, u))

\* C37 (as claimed): a single caller's waitForRateLimit that had to wait for
\* the minute window, its timers firing on time, reserves its slot no later
\* than max(end of that window, previous lastRequestTime +
\* MIN_REQUEST_INTERVAL).  The window it waited for ended MINUTE_WINDOW
\* before the end of the one it then started.
C37_NoLongerThanNeeded ==
  [][\A p \in Callers :
       (/\ task[p].minuteWait
        /\ task[p].pc # "wfr_ret"
        /\ task'[p].pc = "wfr_ret"
        /\ left'.late = MaxLate)
       => clock' <= Max(budget'.requestResetTime - MINUTE_WINDOW,
                        budget.lastRequestTime + MIN_REQUEST_INTERVAL)]_vars

\* C38 (as claimed): a batch never processes more than MAX_ARTICLES
\* candidates and the total of its result never exceeds MAX_ARTICLES, also
\* when the News collaborator returns more articles than it was asked for.
C38_TotalWithinCeiling ==
  \A p \in Batches :
    /\ task[p].enriched + task[p].skipped <= MAX_ARTICLES
    /\ Returned(p) => Total(p) <= MAX_ARTICLES

\* C39: success is incremented only by the step in which create returns for
\* the current candidate, together with the new record; a create that
\* rejects after the enrichment succeeded leaves success as it was, adds 1
\* to failed and one entry to errors; so a returned result's success is the
\* number of records that batch stored.
C39_SuccessCountsRecords ==
  /\ [](\A p \in Batches : Returned(p) => task[p].success = Len(RecordsOf(p)))
  /\ [][\A p \in Batches :
          /\ task'[p].success # task[p].success
             => (/\ task[p].pc = "io_create"
                 /\ task'[p].success = task[p].success + 1
                 /\ Len(store') = Len(store) + 1
                 /\ store'[Len(store')].url = task[p].articles[task[p].i]
                 /\ store'[Len(store')].by = p
                 /\ task'[p].failed = task[p].failed
                 /\ task'[p].errors = task[p].errors)
          /\ (task[p].pc = "io_create" /\ task'[p] # task[p] /\ store' = store)
             => (/\ task'[p].success = task[p].success
                 /\ task'[p].failed = task[p].failed + 1
                 /\ Len(task'[p].errors) = Len(task[p].errors) + 1)]_vars
\* a batch returned after create rejected for a candidate whose summary and
\* embedding had been made, another candidate stored
C39_Witness ==
  \E p \in Batches :
    /\ Returned(p)
    /\ task[p].cause = "store"
    /\ task[p].failed = 1
    /\ task[p].success >= 1
    /\ task[p].enriched = task[p].success + 1
    /\ Len(task[p].errors) = 1
    /\ Len(RecordsOf(p)) = task[p].success
    /\ \E k \in 1..Len(task[p].trail) :
         /\ task[p].trail[k].out = "failed"
         /\ task[p].embFor = task[p].articles[task[p].trail[k].i]

====
